---------------------------- MODULE Spec2Model ----------------------------
(***************************************************************************)
(* Admission control and caching layer of the high-scale API platform:     *)
(*   - RedisService      (src/unnamed/part_017): the health flag           *)
(*   - RateLimitService  (src/src/rate-limit/rate-limit.service.ts)        *)
(*   - CacheService      (src/src/cache/cache.service.ts)                  *)
(*                                                                         *)
(* Units.  Times are milliseconds, as Date.now() returns them.  Durations  *)
(* the code keeps in seconds (windowSeconds, retryAfter) are carried in    *)
(* milliseconds too (seconds * 1000), so that a fractional windowSeconds   *)
(* stays an integer.  Rates (tokens or requests per second) are the        *)
(* fraction rateNum / rateDen.  Capacities are positive integers, so the   *)
(* bucket fields stay integers and the number conversions on the reply     *)
(* path (Lua number -> integer reply, Math.floor, Math.ceil) are exact.    *)
(***************************************************************************)
EXTENDS Integers, Sequences, FiniteSets, TLC

VARIABLES
    isConnected,    \* RedisService.isConnected, read by isHealthy()
    clock,          \* wall clock in ms: Date.now() and the store's clock
    config,         \* RATE_LIMIT_SKIP_IF_REDIS_DOWN and the route's RateLimitMetadata
    tokenBucket,    \* store hash rate_limit:token_bucket:<identifier>
    leakyBucket,    \* store hash rate_limit:leaky_bucket:<identifier>
    rl,             \* one record per rate-limit call in progress
    scriptLog,      \* history: the bucket scripts the store ran, in the order it ran them
    store,          \* cache part of the store: composed key -> entry or lock
    ca,             \* one record per getOrSet call in progress
    loaderCalls,    \* history: number of factory() invocations (the shared counter)
    tagSets,        \* store sets cache:tag:<tag>: tag -> member keys
    co,             \* the get/set/delete/invalidateByTags/clear call in progress
    probe,          \* the ping() in flight, if any
    healthLog,      \* history: transport events and probes, with isHealthy() after each
    idem            \* the idempotency record of one key, and the requests that carry it

vars == <<isConnected, clock, config, tokenBucket, leakyBucket, rl, scriptLog,
          store, ca, loaderCalls, tagSets, co, probe, healthLog, idem>>

rlVars == <<config, tokenBucket, leakyBucket, rl, scriptLog>>
cacheVars == <<store, ca, loaderCalls>>
opVars == <<tagSets, co>>
healthVars == <<probe, healthLog>>

-----------------------------------------------------------------------------
(* Bounds of the model *)

NumCheckers == 2        \* concurrent rate-limit calls on the one identifier
NumCallers == 3
NumRequests == 2         \* concurrent getOrSet calls on the one key
MaxPolls == 2           \* the poll loop of a waiting getOrSet is cut after MaxPolls rounds
MaxTicks == 2           \* the clock advances MaxTicks times, half a second each time
MaxPace == 3             \* the paced client lets MaxPace half seconds pass in all
MaxChecks == 4           \* checks made one after another by the paced client
MaxEvents == 4          \* transport events and probe steps followed by the health monitor

Checkers == 1..NumCheckers
Callers == 1..NumCallers

(* Inputs of getOrSet: the key is "k"; options.namespace is absent ("") or    *)
(* "ns"; options.tags is absent.                                              *)
Namespaces == {"", "ns"}

(* Inputs of the rate limiter: capacity, rate = rateNum/rateDen per second,   *)
(* window in ms (windowSeconds * 1000).                                       *)
Capacities == {1, 2}
Rates == {<<1, 2>>, <<1, 1>>, <<2, 1>>}
WindowsMs == {500, 2000}

-----------------------------------------------------------------------------
(* Arithmetic of the scripts *)

Min(a, b) == IF a <= b THEN a ELSE b
Max(a, b) == IF a >= b THEN a ELSE b

\* math.floor(a / b) and math.ceil(a / b) for b > 0 (\div rounds down)
FloorDiv(a, b) == a \div b
CeilDiv(a, b) == 0 - ((0 - a) \div b)

-----------------------------------------------------------------------------
(* RedisService: the health flag *)

isHealthy == isConnected

\* the handler of 'ready' leaves the flag as it is
OnReadyIgnored ==
    /\ isConnected' = isConnected
    /\ UNCHANGED <<clock, rlVars, cacheVars, opVars, idem>>

\* this.redis.on('ready', ...)
OnReady ==
    /\ isConnected' = TRUE
    /\ UNCHANGED <<clock, rlVars, cacheVars, opVars, idem>>

\* this.redis.on('close', ...)
OnClose ==
    /\ isConnected' = FALSE
    /\ UNCHANGED <<clock, rlVars, cacheVars, opVars, idem>>

\* this.redis.on('end', ...)
OnEnd ==
    /\ isConnected' = FALSE
    /\ UNCHANGED <<clock, rlVars, cacheVars, opVars, idem>>

\* the handler of 'error' marks the store as down
OnErrorMarksDown ==
    /\ isConnected' = FALSE
    /\ UNCHANGED <<clock, rlVars, cacheVars, opVars, idem>>

\* this.redis.on('error', ...): the flag is left alone
OnError ==
    /\ isConnected' = isConnected
    /\ UNCHANGED <<clock, rlVars, cacheVars, opVars, idem>>

(* onModuleInit, at its end: connect() resolved and the status is 'ready',   *)
(* or the client connects lazily, or connect() rejected.                     *)
OnModuleInit(outcome) ==
    /\ isConnected' = IF outcome = "ready" THEN TRUE
                      ELSE IF outcome = "failed" THEN FALSE
                      ELSE isConnected
    /\ UNCHANGED <<clock, rlVars, cacheVars, opVars, idem>>

\* the reply of the probe is not written to the flag
PingOutcomeIgnored(reply) == isConnected

\* every reply of the probe counts as a success
PingOutcomeAlwaysUp(reply) == TRUE

\* this.isConnected = result === 'PONG'; catch: this.isConnected = false
PingOutcome(reply) == reply = "PONG"

\* the transport event or probe step ev, and what isHealthy() answers after it
Observe(ev) ==
    /\ Len(healthLog) < MaxEvents
    /\ healthLog' = Append(healthLog, [ev |-> ev, healthy |-> isConnected'])

Booted == \E i \in DOMAIN healthLog : healthLog[i].ev \in {"initReady", "initLazy", "initFailed"}

\* ping(): the probe is sent whatever the flag says
PingStart ==
    /\ probe = "idle"
    /\ probe' = "sent"
    /\ isConnected' = isConnected
    /\ Observe("pingStart")
    /\ UNCHANGED <<clock, rlVars, cacheVars, opVars, idem>>

\* ping(): the reply ("PONG", another reply, or a rejection) sets the flag
PingReply(reply) ==
    /\ probe = "sent"
    /\ probe' = "idle"
    /\ isConnected' = PingOutcome(reply)
    /\ Observe(IF reply = "PONG" THEN "pong" ELSE "pingFailed")
    /\ UNCHANGED <<clock, rlVars, cacheVars, opVars, idem>>

\* time passes
Tick ==
    /\ clock < MaxTicks * 500
    /\ clock' = clock + 500
    /\ UNCHANGED <<isConnected, rlVars, cacheVars, opVars, healthVars, idem>>

-----------------------------------------------------------------------------
(* The store's bucket hashes *)

AbsentBucket == [present |-> FALSE, value |-> 0, last |-> 0, expireAt |-> 0]

\* HMGET on a key that EXPIRE has removed finds nothing
Live(bucket) == bucket.present /\ clock < bucket.expireAt

\* HMSET key ... ; EXPIRE key math.ceil(windowMs / 1000)
Persist(value, now, windowMs) ==
    [present |-> TRUE, value |-> value, last |-> now,
     expireAt |-> clock + CeilDiv(windowMs, 1000) * 1000]

\* the consumed token is not written back (HMSET left out)
TokenBucketScriptNoWrite(bucket, capacity, rateNum, rateDen, now, windowMs) ==
    LET tokens0 == IF Live(bucket) THEN bucket.value ELSE capacity
        lastRefill == IF Live(bucket) THEN bucket.last ELSE now
        tokensToAdd == FloorDiv((now - lastRefill) * rateNum, 1000 * rateDen)
        tokens == Min(capacity, tokens0 + tokensToAdd)
        tokensNeeded == 1 - tokens
        timeNeeded == CeilDiv(tokensNeeded * rateDen, rateNum)
    IN  IF tokens >= 1
        THEN [reply |-> <<1, tokens - 1, now + windowMs>>, bucket |-> bucket]
        ELSE [reply |-> <<0, tokens, now + timeNeeded * 1000, timeNeeded>>,
              bucket |-> bucket]

\* the reply carries the tokens before the consumed one is taken off
TokenBucketScriptOffByOne(bucket, capacity, rateNum, rateDen, now, windowMs) ==
    LET tokens0 == IF Live(bucket) THEN bucket.value ELSE capacity
        lastRefill == IF Live(bucket) THEN bucket.last ELSE now
        tokensToAdd == FloorDiv((now - lastRefill) * rateNum, 1000 * rateDen)
        tokens == Min(capacity, tokens0 + tokensToAdd)
        tokensNeeded == 1 - tokens
        timeNeeded == CeilDiv(tokensNeeded * rateDen, rateNum)
    IN  IF tokens >= 1
        THEN [reply |-> <<1, tokens, now + windowMs>>,
              bucket |-> Persist(tokens - 1, now, windowMs)]
        ELSE [reply |-> <<0, tokens, now + timeNeeded * 1000, timeNeeded>>,
              bucket |-> bucket]

\* the denial branch writes the read state back and renews the expiry
TokenBucketScriptTouch(bucket, capacity, rateNum, rateDen, now, windowMs) ==
    LET tokens0 == IF Live(bucket) THEN bucket.value ELSE capacity
        lastRefill == IF Live(bucket) THEN bucket.last ELSE now
        tokensToAdd == FloorDiv((now - lastRefill) * rateNum, 1000 * rateDen)
        tokens == Min(capacity, tokens0 + tokensToAdd)
        tokensNeeded == 1 - tokens
        timeNeeded == CeilDiv(tokensNeeded * rateDen, rateNum)
    IN  IF tokens >= 1
        THEN [reply |-> <<1, tokens - 1, now + windowMs>>,
              bucket |-> Persist(tokens - 1, now, windowMs)]
        ELSE [reply |-> <<0, tokens, now + timeNeeded * 1000, timeNeeded>>,
              bucket |-> Persist(tokens, now, windowMs)]

\* the time to wait is the number of tokens needed, whatever the refill rate
TokenBucketScriptRateBlind(bucket, capacity, rateNum, rateDen, now, windowMs) ==
    LET tokens0 == IF Live(bucket) THEN bucket.value ELSE capacity
        lastRefill == IF Live(bucket) THEN bucket.last ELSE now
        tokensToAdd == FloorDiv((now - lastRefill) * rateNum, 1000 * rateDen)
        tokens == Min(capacity, tokens0 + tokensToAdd)
        tokensNeeded == 1 - tokens
    IN  IF tokens >= 1
        THEN [reply |-> <<1, tokens - 1, now + windowMs>>,
              bucket |-> Persist(tokens - 1, now, windowMs)]
        ELSE [reply |-> <<0, tokens, now + tokensNeeded * 1000, tokensNeeded>>,
              bucket |-> bucket]

(* The token bucket script.  bucket is the hash as stored; the result is the  *)
(* reply and the hash after the script.                                       *)
TokenBucketScript(bucket, capacity, rateNum, rateDen, now, windowMs) ==
    LET tokens0 == IF Live(bucket) THEN bucket.value ELSE capacity
        lastRefill == IF Live(bucket) THEN bucket.last ELSE now
        \* math.floor((now - lastRefill) / 1000 * refillRate)
        tokensToAdd == FloorDiv((now - lastRefill) * rateNum, 1000 * rateDen)
        tokens == Min(capacity, tokens0 + tokensToAdd)
        tokensNeeded == 1 - tokens
        timeNeeded == CeilDiv(tokensNeeded * rateDen, rateNum)
    IN  IF tokens >= 1
        THEN [reply |-> <<1, tokens - 1, now + windowMs>>,
              bucket |-> Persist(tokens - 1, now, windowMs)]
        ELSE [reply |-> <<0, tokens, now + timeNeeded * 1000, timeNeeded>>,
              bucket |-> bucket]

\* spaceNeeded without its + 1
LeakyBucketScriptNoSpace(bucket, capacity, rateNum, rateDen, now, windowMs) ==
    LET level0 == IF Live(bucket) THEN bucket.value ELSE 0
        lastLeak == IF Live(bucket) THEN bucket.last ELSE now
        leaked == FloorDiv((now - lastLeak) * rateNum, 1000 * rateDen)
        level == Max(0, level0 - leaked)
        spaceNeeded == level - capacity
        timeNeeded == CeilDiv(spaceNeeded * rateDen, rateNum)
    IN  IF level < capacity
        THEN [reply |-> <<1, capacity - (level + 1), now + windowMs>>,
              bucket |-> Persist(level + 1, now, windowMs)]
        ELSE [reply |-> <<0, 0, now + timeNeeded * 1000, timeNeeded>>,
              bucket |-> bucket]

\* the reply carries the space before the request is poured in
LeakyBucketScriptOffByOne(bucket, capacity, rateNum, rateDen, now, windowMs) ==
    LET level0 == IF Live(bucket) THEN bucket.value ELSE 0
        lastLeak == IF Live(bucket) THEN bucket.last ELSE now
        leaked == FloorDiv((now - lastLeak) * rateNum, 1000 * rateDen)
        level == Max(0, level0 - leaked)
        spaceNeeded == level - capacity + 1
        timeNeeded == CeilDiv(spaceNeeded * rateDen, rateNum)
    IN  IF level < capacity
        THEN [reply |-> <<1, capacity - level, now + windowMs>>,
              bucket |-> Persist(level + 1, now, windowMs)]
        ELSE [reply |-> <<0, 0, now + timeNeeded * 1000, timeNeeded>>,
              bucket |-> bucket]

\* a full bucket admits the request all the same
LeakyBucketScriptNoLimit(bucket, capacity, rateNum, rateDen, now, windowMs) ==
    LET level0 == IF Live(bucket) THEN bucket.value ELSE 0
        lastLeak == IF Live(bucket) THEN bucket.last ELSE now
        leaked == FloorDiv((now - lastLeak) * rateNum, 1000 * rateDen)
        level == Max(0, level0 - leaked)
    IN  [reply |-> <<1, capacity - (level + 1), now + windowMs>>,
         bucket |-> Persist(level + 1, now, windowMs)]

(* The leaky bucket script. *)
LeakyBucketScript(bucket, capacity, rateNum, rateDen, now, windowMs) ==
    LET level0 == IF Live(bucket) THEN bucket.value ELSE 0
        lastLeak == IF Live(bucket) THEN bucket.last ELSE now
        leaked == FloorDiv((now - lastLeak) * rateNum, 1000 * rateDen)
        level == Max(0, level0 - leaked)
        spaceNeeded == level - capacity + 1
        timeNeeded == CeilDiv(spaceNeeded * rateDen, rateNum)
    IN  IF level < capacity
        THEN [reply |-> <<1, capacity - (level + 1), now + windowMs>>,
              bucket |-> Persist(level + 1, now, windowMs)]
        ELSE [reply |-> <<0, 0, now + timeNeeded * 1000, timeNeeded>>,
              bucket |-> bucket]

-----------------------------------------------------------------------------
(* RateLimitService *)

\* fail-open answers remaining: 0
TokenUnhealthyResultNoneLeft(skip, capacity, now, windowMs) ==
    [allowed |-> skip, remaining |-> 0, resetTime |-> now + windowMs,
     retryAfter |-> IF skip THEN << >> ELSE <<windowMs>>]

\* retryAfter is << >> when the result has none, <<ms>> otherwise
TokenUnhealthyResult(skip, capacity, now, windowMs) ==
    IF skip
    THEN [allowed |-> TRUE, remaining |-> capacity, resetTime |-> now + windowMs,
          retryAfter |-> << >>]
    ELSE [allowed |-> FALSE, remaining |-> 0, resetTime |-> now + windowMs,
          retryAfter |-> <<windowMs>>]

\* the catch block always denies
TokenCatchResultDeny(skip, capacity, now, windowMs) ==
    [allowed |-> FALSE, remaining |-> 0, resetTime |-> now + windowMs,
     retryAfter |-> <<windowMs>>]

TokenCatchResult(skip, capacity, now, windowMs) ==
    IF skip
    THEN [allowed |-> TRUE, remaining |-> capacity, resetTime |-> now + windowMs,
          retryAfter |-> << >>]
    ELSE [allowed |-> FALSE, remaining |-> 0, resetTime |-> now + windowMs,
          retryAfter |-> <<windowMs>>]

LeakyUnhealthyResult(skip, capacity, now, windowMs) ==
    IF skip
    THEN [allowed |-> TRUE, remaining |-> capacity, resetTime |-> now + windowMs,
          retryAfter |-> << >>]
    ELSE [allowed |-> FALSE, remaining |-> 0, resetTime |-> now + windowMs,
          retryAfter |-> <<windowMs>>]

LeakyCatchResult(skip, capacity, now, windowMs) ==
    IF skip
    THEN [allowed |-> TRUE, remaining |-> capacity, resetTime |-> now + windowMs,
          retryAfter |-> << >>]
    ELSE [allowed |-> FALSE, remaining |-> 0, resetTime |-> now + windowMs,
          retryAfter |-> <<windowMs>>]

\* const [allowed, remaining, resetTime, retryAfter] = result; return {...}
ReplyResult(reply) ==
    [allowed |-> reply[1] = 1,
     remaining |-> reply[2],
     resetTime |-> reply[3],
     retryAfter |-> IF Len(reply) >= 4 /\ reply[4] # 0
                    THEN <<reply[4] * 1000>> ELSE << >>]

\* if (!allowed) this.metricsService.recordRateLimitHit(identifier, algorithm)
ReplyHits(reply) == IF reply[1] = 0 THEN 1 ELSE 0

\* the health check left out
ShortCircuitNever(healthy) == FALSE

\* if (!this.redisService.isHealthy()) { return the policy result }
ShortCircuit(healthy) == ~healthy

NoResult == [allowed |-> FALSE, remaining |-> 0, resetTime |-> 0, retryAfter |-> << >>]

IdleCall == [pc |-> "idle", algo |-> "none", now |-> 0, healthyAtStart |-> FALSE,
             cause |-> "none", evals |-> 0, hits |-> 0, result |-> NoResult]

(* checkTokenBucket / checkLeakyBucket up to the store call: now = Date.now(), *)
(* then the health check, which answers at once when the store is down.       *)
CheckStart(c, algo, unhealthyResult) ==
    /\ rl[c].pc = "idle"
    /\ \A d \in Checkers : d < c => rl[d].pc # "idle"   \* calls are numbered as they start
    /\ IF ShortCircuit(isHealthy)
       THEN rl' = [rl EXCEPT ![c] = [@ EXCEPT !.pc = "done", !.algo = algo, !.now = clock,
                                     !.healthyAtStart = isHealthy, !.cause = "unhealthy",
                                     !.result = unhealthyResult]]
       ELSE rl' = [rl EXCEPT ![c] = [@ EXCEPT !.pc = "eval", !.algo = algo, !.now = clock,
                                     !.healthyAtStart = isHealthy]]
    /\ UNCHANGED <<isConnected, clock, config, tokenBucket, leakyBucket, scriptLog, cacheVars, opVars, healthVars, idem>>

CheckTokenBucketStart(c) ==
    /\ config.strategy = "token_bucket"
    /\ CheckStart(c, "token_bucket",
               TokenUnhealthyResult(config.skipIfRedisDown, config.capacity, clock,
                                    config.windowMs))

CheckLeakyBucketStart(c) ==
    /\ config.strategy = "leaky_bucket"
    /\ CheckStart(c, "leaky_bucket",
               LeakyUnhealthyResult(config.skipIfRedisDown, config.capacity, clock,
                                    config.windowMs))

LogEntry(c, reply) ==
    [algo |-> rl[c].algo, allowed |-> reply[1] = 1, remaining |-> reply[2], now |-> rl[c].now]

(* redis.eval resolves: the store ran the script atomically and the reply     *)
(* reached the caller.                                                        *)
CheckTokenBucketEval(c) ==
    /\ rl[c].pc = "eval" /\ rl[c].algo = "token_bucket"
    /\ LET out == TokenBucketScript(tokenBucket, config.capacity, config.rateNum,
                                    config.rateDen, rl[c].now, config.windowMs)
       IN  /\ tokenBucket' = out.bucket
           /\ scriptLog' = Append(scriptLog, LogEntry(c, out.reply))
           /\ rl' = [rl EXCEPT ![c] = [@ EXCEPT !.pc = "done", !.cause = "script",
                                       !.evals = @ + 1,
                                       !.hits = @ + ReplyHits(out.reply),
                                       !.result = ReplyResult(out.reply)]]
    /\ UNCHANGED <<isConnected, clock, config, leakyBucket, cacheVars, opVars, healthVars, idem>>

CheckLeakyBucketEval(c) ==
    /\ rl[c].pc = "eval" /\ rl[c].algo = "leaky_bucket"
    /\ LET out == LeakyBucketScript(leakyBucket, config.capacity, config.rateNum,
                                    config.rateDen, rl[c].now, config.windowMs)
       IN  /\ leakyBucket' = out.bucket
           /\ scriptLog' = Append(scriptLog, LogEntry(c, out.reply))
           /\ rl' = [rl EXCEPT ![c] = [@ EXCEPT !.pc = "done", !.cause = "script",
                                       !.evals = @ + 1,
                                       !.hits = @ + ReplyHits(out.reply),
                                       !.result = ReplyResult(out.reply)]]
    /\ UNCHANGED <<isConnected, clock, config, tokenBucket, cacheVars, opVars, healthVars, idem>>

(* redis.eval rejects (connection error, timeout): the catch block answers.   *)
(* The store may have run the script before the reply was lost (ran = TRUE).  *)
CheckTokenBucketEvalFails(c, ran) ==
    /\ rl[c].pc = "eval" /\ rl[c].algo = "token_bucket"
    /\ LET out == TokenBucketScript(tokenBucket, config.capacity, config.rateNum,
                                    config.rateDen, rl[c].now, config.windowMs)
       IN  /\ tokenBucket' = IF ran THEN out.bucket ELSE tokenBucket
           /\ scriptLog' = IF ran THEN Append(scriptLog, LogEntry(c, out.reply))
                                  ELSE scriptLog
    /\ rl' = [rl EXCEPT ![c] = [@ EXCEPT !.pc = "done", !.cause = "error",
                                !.evals = @ + 1,
                                !.result = TokenCatchResult(config.skipIfRedisDown,
                                              config.capacity, rl[c].now, config.windowMs)]]
    /\ UNCHANGED <<isConnected, clock, config, leakyBucket, cacheVars, opVars, healthVars, idem>>

CheckLeakyBucketEvalFails(c, ran) ==
    /\ rl[c].pc = "eval" /\ rl[c].algo = "leaky_bucket"
    /\ LET out == LeakyBucketScript(leakyBucket, config.capacity, config.rateNum,
                                    config.rateDen, rl[c].now, config.windowMs)
       IN  /\ leakyBucket' = IF ran THEN out.bucket ELSE leakyBucket
           /\ scriptLog' = IF ran THEN Append(scriptLog, LogEntry(c, out.reply))
                                  ELSE scriptLog
    /\ rl' = [rl EXCEPT ![c] = [@ EXCEPT !.pc = "done", !.cause = "error",
                                !.evals = @ + 1,
                                !.result = LeakyCatchResult(config.skipIfRedisDown,
                                              config.capacity, rl[c].now, config.windowMs)]]
    /\ UNCHANGED <<isConnected, clock, config, tokenBucket, cacheVars, opVars, healthVars, idem>>

-----------------------------------------------------------------------------
(* CacheService: keys and store primitives *)

\* null: a missing key, a failed read, and what JSON.parse("null") gives
Null == 0

\* `cache:${namespace}:${key}` or `cache:${key}`, as the sequence of its segments
buildKey(key, namespace) ==
    IF namespace # "" THEN <<"cache", namespace, key>> ELSE <<"cache", key>>

\* const lockKey = `${cacheKey}:lock`
LockKeyOf(cacheKey) == Append(cacheKey, "lock")

CacheKeys == {buildKey("k", ns) : ns \in Namespaces}
LockKeys == {LockKeyOf(k) : k \in CacheKeys}

\* owner: the call whose SET NX created a lock (history, the store keeps '1')
\* tags: the tags of the set() that wrote an entry (history, kept in tag-sets only)
NoEntry == [present |-> FALSE, val |-> Null, owner |-> 0, tags |-> {}]

\* get(key): the key is composed without the namespace
CacheGet(st, key, healthy, ok) ==
    IF ~healthy THEN Null
    ELSE IF ~ok THEN Null
    ELSE IF st[buildKey(key, "")].present THEN st[buildKey(key, "")].val
    ELSE Null

\* set(key, value, options): the key is composed with options.namespace
CacheSet(st, key, namespace, value, healthy, ok) ==
    IF healthy /\ ok
    THEN [st EXCEPT ![buildKey(key, namespace)] = [present |-> TRUE, val |-> value, owner |-> 0, tags |-> {}]]
    ELSE st

\* acquireLock: SET lockKey '1' EX ttl NX answers OK when the key was absent
LockAcquired(st, lockKey, healthy, ok) == healthy /\ ok /\ ~st[lockKey].present

\* releaseLock: nothing when the store is unhealthy, else del(lockKey)
ReleaseLockStore(st, lockKey, healthy, ok) ==
    IF healthy /\ ok THEN [st EXCEPT ![lockKey] = NoEntry] ELSE st

\* redisService.exists(lockKey): false when not connected or on error
LockExists(st, lockKey, healthy, ok) == healthy /\ ok /\ st[lockKey].present

\* const maxRetries = maxWaitTime / checkInterval
maxWaitTime == 5000
checkInterval == 100
maxRetries == Min(maxWaitTime \div checkInterval, MaxPolls)

-----------------------------------------------------------------------------
(* CacheService.getOrSet, one action per store call or loader event.  Each   *)
(* action is the code from one await to the next: the reply of the store     *)
(* call, then the synchronous code that follows it.  ok = FALSE is a store   *)
(* call that fails at runtime (it is not executed and its wrapper answers    *)
(* the safe default).                                                        *)

IdleCaller ==
    [pc |-> "idle", ns |-> "", i |-> 0, cached |-> Null, value |-> Null,
     acquired |-> FALSE, release |-> "none", loads |-> 0,
     outcome |-> "none", result |-> Null,
     path |-> "none",    \* history: the branch taken after the first get
     lockTouched |-> FALSE]  \* history: acquireLock, exists(lockKey) or releaseLock called

CacheKeyOf(c) == buildKey("k", ca[c].ns)
MyLock(c) == LockKeyOf(CacheKeyOf(c))

Returned(rec, v) ==
    [rec EXCEPT !.pc = "done", !.outcome = "returned", !.result = v]
Thrown(rec) ==
    [rec EXCEPT !.pc = "done", !.outcome = "thrown"]
\* const value = await factory(): the invocation
Invoke(rec, pc) == [rec EXCEPT !.pc = pc, !.loads = @ + 1]

\* getOrSet(key, factory, options) up to the reply of its first get
GetOrSetStart(c, ns, ok) ==
    /\ ca[c].pc = "idle"
    /\ \A d \in Callers : d < c => ca[d].pc # "idle"   \* calls are numbered as they start
    /\ \A d \in Callers : d < c => ca[d].ns = ns       \* and pass the same options
    /\ LET cached == CacheGet(store, "k", isHealthy, ok)
           rec == [ca[c] EXCEPT !.ns = ns, !.cached = cached]
       IN  ca' = [ca EXCEPT ![c] = IF cached # Null
                                   THEN Returned([rec EXCEPT !.path = "hit"], cached)
                                   ELSE [rec EXCEPT !.pc = "miss"]]
    /\ UNCHANGED <<isConnected, clock, rlVars, opVars, healthVars, store, loaderCalls, idem>>

\* the store is down and the call goes on to acquireLock all the same
DownBranchTriesLock(rec) ==
    [rec EXCEPT !.path = "down", !.pc = "wait", !.lockTouched = TRUE]

\* if (!isHealthy()) { const value = await factory(); ... }
DownBranch(rec) == Invoke([rec EXCEPT !.path = "down"], "loadingDown")

\* after the miss: the unhealthy branch calls factory, the healthy one acquireLock
AfterMiss(c, ok) ==
    /\ ca[c].pc = "miss"
    /\ IF ~isHealthy
       THEN /\ ca' = [ca EXCEPT ![c] = DownBranch(@)]
            /\ loaderCalls' = loaderCalls + (ca'[c].loads - ca[c].loads)
            /\ store' = store
       ELSE IF LockAcquired(store, MyLock(c), isHealthy, ok)
       THEN /\ store' = [store EXCEPT ![MyLock(c)] = [present |-> TRUE, val |-> 1, owner |-> c,
                                                      tags |-> {}]]
            /\ ca' = [ca EXCEPT ![c] = [@ EXCEPT !.pc = "locked", !.path = "lock",
                                                  !.acquired = TRUE, !.lockTouched = TRUE]]
            /\ loaderCalls' = loaderCalls
       ELSE /\ ca' = [ca EXCEPT ![c] = [@ EXCEPT !.pc = "wait", !.path = "wait",
                                                  !.i = 0, !.lockTouched = TRUE]]
            /\ UNCHANGED <<store, loaderCalls>>
    /\ UNCHANGED <<isConnected, clock, rlVars, opVars, healthVars, idem>>

\* the double-check's answer is not looked at
DoubleCheckAlwaysLoads(c, ok) ==
    /\ ca[c].pc = "locked"
    /\ ca' = [ca EXCEPT ![c] = Invoke([@ EXCEPT !.cached = CacheGet(store, "k", isHealthy, ok)],
                                      "loading")]
    /\ loaderCalls' = loaderCalls + 1
    /\ UNCHANGED <<isConnected, clock, rlVars, opVars, healthVars, store, idem>>

\* lock acquired: the double-check, then factory() on a second miss
DoubleCheck(c, ok) ==
    /\ ca[c].pc = "locked"
    /\ LET cached == CacheGet(store, "k", isHealthy, ok)
           rec == [ca[c] EXCEPT !.cached = cached]
       IN  IF cached # Null
           THEN /\ ca' = [ca EXCEPT ![c] = [rec EXCEPT !.pc = "releaseHit"]]
                /\ loaderCalls' = loaderCalls
           ELSE /\ ca' = [ca EXCEPT ![c] = Invoke(rec, "loading")]
                /\ loaderCalls' = loaderCalls + 1
    /\ UNCHANGED <<isConnected, clock, rlVars, opVars, healthVars, store, idem>>

(* factory() settles while the lock is held.  out is what it does: "value"   *)
(* resolves to a fresh value, "null" resolves to null, "throw" rejects.      *)
\* a rejected factory ends the call at once
CatchStepNoRelease(rec) == Thrown(rec)

\* catch (error) { await this.releaseLock(lockKey); throw error; }
CatchStep(rec) == [rec EXCEPT !.pc = "releaseErr"]

LoaderValue(out) == IF out = "value" THEN loaderCalls ELSE Null

LoadFinishLocked(c, out, ok) ==
    /\ ca[c].pc = "loading"
    /\ IF out = "throw"
       THEN /\ ca' = [ca EXCEPT ![c] = CatchStep(@)]
            /\ store' = store
       ELSE /\ store' = CacheSet(store, "k", ca[c].ns, LoaderValue(out), isHealthy, ok)
            /\ ca' = [ca EXCEPT ![c] = [@ EXCEPT !.pc = "release",
                                                              !.value = LoaderValue(out)]]
    /\ UNCHANGED <<isConnected, clock, rlVars, opVars, healthVars, loaderCalls, idem>>

\* factory() settles in a call that holds no lock (store down, or wait given up)
LoadFinishUnlocked(c, out, ok) ==
    /\ ca[c].pc \in {"loadingDown", "loadingDirect"}
    /\ IF out = "throw"
       THEN /\ ca' = [ca EXCEPT ![c] = Thrown(@)]
            /\ store' = store
       ELSE /\ store' = CacheSet(store, "k", ca[c].ns, LoaderValue(out), isHealthy, ok)
            /\ ca' = [ca EXCEPT ![c] = Returned([@ EXCEPT
                                                    !.value = LoaderValue(out)],
                                                LoaderValue(out))]
    /\ UNCHANGED <<isConnected, clock, rlVars, opVars, healthVars, loaderCalls, idem>>

\* await this.releaseLock(lockKey), then the return or the rethrow
ReleaseLock(c, ok) ==
    /\ ca[c].pc \in {"releaseHit", "release", "releaseErr"}
    /\ store' = ReleaseLockStore(store, MyLock(c), isHealthy, ok)
    /\ LET rec == [ca[c] EXCEPT
                      !.release = IF ~isHealthy THEN "skipped"
                                  ELSE IF ~ok THEN "failed" ELSE "deleted",
                      !.lockTouched = TRUE]
       IN  ca' = [ca EXCEPT ![c] =
                     IF ca[c].pc = "releaseHit" THEN Returned(rec, ca[c].cached)
                     ELSE IF ca[c].pc = "release" THEN Returned(rec, ca[c].value)
                     ELSE Thrown(rec)]
    /\ UNCHANGED <<isConnected, clock, rlVars, opVars, healthVars, loaderCalls, idem>>

\* lock not acquired: one round of the loop, the sleep and the get
PollGet(c, ok) ==
    /\ ca[c].pc = "wait"
    /\ LET cached == CacheGet(store, "k", isHealthy, ok)
           rec == [ca[c] EXCEPT !.cached = cached]
       IN  ca' = [ca EXCEPT ![c] = IF cached # Null THEN Returned(rec, cached)
                                   ELSE [rec EXCEPT !.pc = "pollExists"]]
    /\ UNCHANGED <<isConnected, clock, rlVars, opVars, healthVars, store, loaderCalls, idem>>

\* the round is not counted
NextRoundNoCount(rec) == [rec EXCEPT !.pc = "wait"]

\* for (...; i < maxRetries; i++): the end of a round in which the lock was seen
NextRound(rec) == [rec EXCEPT !.pc = "wait", !.i = @ + 1]

\* the exists(lockKey) of the round; the loop ends after maxRetries rounds
PollExists(c, ok) ==
    /\ ca[c].pc = "pollExists"
    /\ LET rec == [ca[c] EXCEPT !.lockTouched = TRUE]
       IN  IF LockExists(store, MyLock(c), isHealthy, ok)
           THEN IF NextRound(rec).i < maxRetries
                THEN /\ ca' = [ca EXCEPT ![c] = NextRound(rec)]
                     /\ loaderCalls' = loaderCalls
                ELSE /\ ca' = [ca EXCEPT ![c] = Invoke(NextRound(rec), "loadingDirect")]
                     /\ loaderCalls' = loaderCalls + 1
           ELSE /\ ca' = [ca EXCEPT ![c] = [rec EXCEPT !.pc = "pollRecheck"]]
                /\ loaderCalls' = loaderCalls
    /\ UNCHANGED <<isConnected, clock, rlVars, opVars, healthVars, store, idem>>

\* lock seen absent: one more get, then the break and factory()
PollRecheck(c, ok) ==
    /\ ca[c].pc = "pollRecheck"
    /\ LET cached == CacheGet(store, "k", isHealthy, ok)
           rec == [ca[c] EXCEPT !.cached = cached]
       IN  IF cached # Null
           THEN /\ ca' = [ca EXCEPT ![c] = Returned(rec, cached)]
                /\ loaderCalls' = loaderCalls
           ELSE /\ ca' = [ca EXCEPT ![c] = Invoke(rec, "loadingDirect")]
                /\ loaderCalls' = loaderCalls + 1
    /\ UNCHANGED <<isConnected, clock, rlVars, opVars, healthVars, store, idem>>

\* the store drops a lock whose ttl (lockTtl = 30 s) has run out
LockExpire(k) ==
    /\ store[k].present
    /\ store' = [store EXCEPT ![k] = NoEntry]
    /\ UNCHANGED <<isConnected, clock, rlVars, opVars, healthVars, ca, loaderCalls, idem>>

-----------------------------------------------------------------------------
(* CacheService: get, set, delete, invalidateByTags, clear.  One client     *)
(* makes one call at a time; each action is the code that leads to one      *)
(* store call, that call, and the synchronous code after it.  ok = FALSE is *)
(* a store call that fails at runtime (it is not executed).                 *)

(* Inputs: the key is "k", options.namespace is in Namespaces, the value is  *)
(* 1, options.tags and the argument of invalidateByTags are lists over Tags. *)
Tags == {"t", "u"}
SetTagLists == {<< >>, <<"t">>, <<"u">>, <<"t", "u">>}
InvalidateTagLists == {<<"t">>, <<"u">>, <<"t", "u">>}

Range(seq) == {seq[i] : i \in DOMAIN seq}

\* the members of a store reply (SMEMBERS, KEYS) in the order of the reply
RECURSIVE SetToSeq(_)
SetToSeq(S) ==
    IF S = {} THEN << >>
    ELSE LET x == CHOOSE y \in S : TRUE IN <<x>> \o SetToSeq(S \ {x})

\* a set key exists while it has members; volatile: it carries a ttl
EmptyTagSet == [members |-> {}, volatile |-> FALSE]

\* const tagKey = `cache:tag:${tag}`
TagKey(tag) == <<"cache", "tag", tag>>

IdleOp ==
    [name |-> "none", pc |-> "idle", key |-> << >>, tags |-> << >>, members |-> << >>,
     given |-> << >>,    \* the tags argument of the call
     value |-> Null, success |-> FALSE, count |-> 0,
     removed |-> {},     \* history: the entries this call's deletes took out of the store
     before |-> {},      \* history: live entries carrying a tag of the call, at its start
     down |-> FALSE,     \* history: isHealthy() was false at the start of the call
     failed |-> FALSE,   \* history: a store call of this call failed at runtime
     outcome |-> "none"]

FreshOp(name) == [IdleOp EXCEPT !.name = name]
OpReady == co.pc \in {"idle", "done"}
Finish(rec) ==
    [rec EXCEPT !.pc = "done", !.outcome = "returned", !.tags = << >>, !.members = << >>]

\* a read that the store rejects marks the store as down
CacheGetOpMarksDown(key, ok) ==
    /\ OpReady
    /\ co' = Finish([FreshOp("get") EXCEPT !.key = buildKey(key, ""),
                                            !.down = ~isHealthy,
                                            !.failed = isHealthy /\ ~ok,
                                            !.value = CacheGet(store, key, isHealthy, ok)])
    /\ isConnected' = (isConnected /\ ok)
    /\ UNCHANGED <<clock, rlVars, cacheVars, tagSets, healthVars, idem>>

\* get(key)
CacheGetOp(key, ok) ==
    /\ OpReady
    /\ co' = Finish([FreshOp("get") EXCEPT !.key = buildKey(key, ""),
                                            !.down = ~isHealthy,
                                            !.failed = isHealthy /\ ~ok,
                                            !.value = CacheGet(store, key, isHealthy, ok)])
    /\ UNCHANGED <<isConnected, clock, rlVars, cacheVars, tagSets, healthVars, idem>>

\* set(key, value, options) up to redisService.set(cacheKey, serialized, ttl)
CacheSetStart(key, ns, value, tags, ok) ==
    /\ OpReady
    /\ LET k == buildKey(key, ns)
           rec == [FreshOp("set") EXCEPT !.key = k, !.value = value, !.tags = tags,
                                          !.given = tags,
                                          !.down = ~isHealthy]
       IN  IF ~isHealthy
           THEN /\ co' = Finish(rec)
                /\ store' = store
           ELSE /\ store' = IF ok
                            THEN [CacheSet(store, key, ns, value, isHealthy, ok)
                                     EXCEPT ![k].tags = Range(tags)]
                            ELSE store
                /\ co' = LET r2 == [rec EXCEPT !.success = ok, !.failed = ~ok]
                         IN  IF tags = << >> THEN Finish(r2) ELSE [r2 EXCEPT !.pc = "sadd"]
    /\ UNCHANGED <<isConnected, clock, rlVars, ca, loaderCalls, tagSets, healthVars, idem>>

\* storeCacheTags: getClient().sadd(tagKey, cacheKey); a failure ends the loop
SetTagAdd(ok) ==
    /\ co.pc = "sadd"
    /\ LET t == Head(co.tags)
       IN  IF ok
           THEN /\ tagSets' = [tagSets EXCEPT ![t].members = @ \cup {co.key}]
                /\ co' = [co EXCEPT !.pc = "expire"]
           ELSE /\ tagSets' = tagSets
                /\ co' = Finish([co EXCEPT !.failed = TRUE])
    /\ UNCHANGED <<isConnected, clock, rlVars, cacheVars, healthVars, idem>>

\* storeCacheTags: redisService.expire(tagKey, defaultTtl), then the next tag
SetTagExpire(ok) ==
    /\ co.pc = "expire"
    /\ LET t == Head(co.tags)
           rec == [co EXCEPT !.tags = Tail(@), !.failed = @ \/ (isConnected /\ ~ok)]
       IN  /\ tagSets' = IF isConnected /\ ok /\ tagSets[t].members # {}
                          THEN [tagSets EXCEPT ![t].volatile = TRUE]
                          ELSE tagSets
           /\ co' = IF rec.tags = << >> THEN Finish(rec) ELSE [rec EXCEPT !.pc = "sadd"]
    /\ UNCHANGED <<isConnected, clock, rlVars, cacheVars, healthVars, idem>>

\* delete(key, namespace) up to redisService.del(cacheKey); its answer is not read
CacheDeleteStart(key, ns, ok) ==
    /\ OpReady
    /\ LET k == buildKey(key, ns)
           rec == [FreshOp("delete") EXCEPT !.key = k, !.down = ~isHealthy]
       IN  IF ~isHealthy
           THEN /\ co' = Finish(rec)
                /\ store' = store
           ELSE /\ store' = IF ok THEN [store EXCEPT ![k] = NoEntry] ELSE store
                /\ co' = [rec EXCEPT !.failed = ~ok, !.pc = "scan",
                                     !.removed = IF ok /\ store[k].present THEN {k} ELSE {}]
    /\ UNCHANGED <<isConnected, clock, rlVars, ca, loaderCalls, tagSets, healthVars, idem>>

\* deleteCacheTags: getClient().keys('cache:tag:*')
DeleteScan(ok) ==
    /\ co.pc = "scan"
    /\ LET found == SetToSeq({t \in Tags : tagSets[t].members # {}})
       IN  co' = IF ~ok THEN Finish([co EXCEPT !.failed = TRUE, !.success = TRUE])
                 ELSE IF found = << >> THEN Finish([co EXCEPT !.success = TRUE])
                 ELSE [co EXCEPT !.tags = found, !.pc = "srem"]
    /\ UNCHANGED <<isConnected, clock, rlVars, cacheVars, tagSets, healthVars, idem>>

\* deleteCacheTags: getClient().srem(tagKey, cacheKey); a failure ends the loop
DeleteSrem(ok) ==
    /\ co.pc = "srem"
    /\ LET t == Head(co.tags)
           left == tagSets[t].members \ {co.key}
           rec == [co EXCEPT !.tags = Tail(@)]
       IN  IF ok
           THEN /\ tagSets' = [tagSets EXCEPT ![t] = IF left = {} THEN EmptyTagSet
                                                     ELSE [@ EXCEPT !.members = left]]
                /\ co' = IF rec.tags = << >> THEN Finish([rec EXCEPT !.success = TRUE])
                         ELSE rec
           ELSE /\ tagSets' = tagSets
                /\ co' = Finish([co EXCEPT !.failed = TRUE, !.success = TRUE])
    /\ UNCHANGED <<isConnected, clock, rlVars, cacheVars, healthVars, idem>>

\* invalidateByTags(tags): the health check
InvalidateStart(tags) ==
    /\ OpReady
    /\ LET rec == [FreshOp("invalidateByTags") EXCEPT
                      !.tags = tags, !.given = tags, !.down = ~isHealthy,
                      !.before = {k \in CacheKeys :
                                     store[k].present /\ store[k].tags \cap Range(tags) # {}}]
       IN  co' = IF ~isHealthy THEN Finish(rec) ELSE [rec EXCEPT !.pc = "smembers"]
    /\ UNCHANGED <<isConnected, clock, rlVars, cacheVars, tagSets, healthVars, idem>>

\* getClient().smembers(tagKey); a failure ends the call with the count so far
InvSmembers(ok) ==
    /\ co.pc = "smembers"
    /\ LET keys == SetToSeq(tagSets[Head(co.tags)].members)
       IN  co' = IF ~ok THEN Finish([co EXCEPT !.failed = TRUE])
                 ELSE [co EXCEPT !.members = keys,
                                 !.pc = IF keys = << >> THEN "delTag" ELSE "delMember"]
    /\ UNCHANGED <<isConnected, clock, rlVars, cacheVars, tagSets, healthVars, idem>>

\* the member key is counted and left in the store
InvDelMemberSkipsDelete(ok) ==
    /\ co.pc = "delMember"
    /\ store' = store
    /\ co' = [co EXCEPT !.count = @ + 1, !.members = Tail(@),
                        !.pc = IF Tail(co.members) = << >> THEN "delTag" ELSE "delMember"]
    /\ UNCHANGED <<isConnected, clock, rlVars, ca, loaderCalls, tagSets, healthVars, idem>>

\* await this.redisService.del(key); invalidatedCount++
InvDelMember(ok) ==
    /\ co.pc = "delMember"
    /\ LET k == Head(co.members)
           exec == isConnected /\ ok
       IN  /\ store' = IF exec THEN [store EXCEPT ![k] = NoEntry] ELSE store
           /\ co' = [co EXCEPT !.count = @ + 1,
                               !.removed = IF exec /\ store[k].present THEN @ \cup {k} ELSE @,
                               !.failed = @ \/ (isConnected /\ ~ok),
                               !.members = Tail(@),
                               !.pc = IF Tail(co.members) = << >> THEN "delTag"
                                      ELSE "delMember"]
    /\ UNCHANGED <<isConnected, clock, rlVars, ca, loaderCalls, tagSets, healthVars, idem>>

\* await this.redisService.del(tagKey), then the next tag
InvDelTag(ok) ==
    /\ co.pc = "delTag"
    /\ tagSets' = IF isConnected /\ ok THEN [tagSets EXCEPT ![Head(co.tags)] = EmptyTagSet]
                  ELSE tagSets
    /\ co' = LET rec == [co EXCEPT !.tags = Tail(@), !.failed = @ \/ (isConnected /\ ~ok)]
             IN  IF rec.tags = << >> THEN Finish(rec) ELSE [rec EXCEPT !.pc = "smembers"]
    /\ UNCHANGED <<isConnected, clock, rlVars, cacheVars, healthVars, idem>>

\* namespace ? `cache:${namespace}:*` : 'cache:*', matched against a key
Matches(ns, key) ==
    IF ns = "" THEN key[1] = "cache"
    ELSE Len(key) >= 3 /\ key[1] = "cache" /\ key[2] = ns

\* clear(namespace) up to getClient().keys(pattern)
CacheClearStart(ns, ok) ==
    /\ OpReady
    /\ LET rec == [FreshOp("clear") EXCEPT !.down = ~isHealthy,
                                          \* the pattern of the call, without its *
                                          !.key = IF ns = "" THEN <<"cache">>
                                                  ELSE <<"cache", ns>>]
           keys == SetToSeq({k \in DOMAIN store : store[k].present /\ Matches(ns, k)})
           sets == SetToSeq({t \in Tags : tagSets[t].members # {} /\ Matches(ns, TagKey(t))})
       IN  co' = IF ~isHealthy THEN Finish(rec)
                 ELSE IF ~ok THEN Finish([rec EXCEPT !.failed = TRUE])
                 ELSE IF keys = << >> /\ sets = << >> THEN Finish([rec EXCEPT !.success = TRUE])
                 ELSE [rec EXCEPT !.members = keys, !.tags = sets, !.pc = "clearDel"]
    /\ UNCHANGED <<isConnected, clock, rlVars, cacheVars, tagSets, healthVars, idem>>

\* getClient().del(...keys)
ClearDel(ok) ==
    /\ co.pc = "clearDel"
    /\ IF ok
       THEN /\ store' = [k \in DOMAIN store |->
                            IF k \in Range(co.members) THEN NoEntry ELSE store[k]]
            /\ tagSets' = [t \in Tags |->
                              IF t \in Range(co.tags) THEN EmptyTagSet ELSE tagSets[t]]
            /\ co' = Finish([co EXCEPT !.success = TRUE,
                                       !.removed = {k \in Range(co.members) : store[k].present}])
       ELSE /\ UNCHANGED <<store, tagSets>>
            /\ co' = Finish([co EXCEPT !.failed = TRUE])
    /\ UNCHANGED <<isConnected, clock, rlVars, ca, loaderCalls, healthVars, idem>>

\* the store drops an entry whose ttl has run out
EntryExpire(k) ==
    /\ store[k].present
    /\ store' = [store EXCEPT ![k] = NoEntry]
    /\ UNCHANGED <<isConnected, clock, rlVars, ca, loaderCalls, opVars, healthVars, idem>>

\* the store drops a tag-set whose ttl (defaultTtl) has run out
TagSetExpire(t) ==
    /\ tagSets[t].volatile /\ tagSets[t].members # {}
    /\ tagSets' = [tagSets EXCEPT ![t] = EmptyTagSet]
    /\ UNCHANGED <<isConnected, clock, rlVars, cacheVars, co, healthVars, idem>>

-----------------------------------------------------------------------------
(* Specifications *)

Configs ==
    [strategy : {"token_bucket", "leaky_bucket"}, skipIfRedisDown : BOOLEAN, capacity : Capacities,
     rateNum : {r[1] : r \in Rates}, rateDen : {r[2] : r \in Rates},
     windowMs : WindowsMs]

(* IdempotencyInterceptor and IdempotencyService. All requests carry the same *)
(* Idempotency-Key, URL and caller identifier, hence the same full key and   *)
(* the same store key idempotency:<fullKey>.                                 *)

Requests == 1..NumRequests
Methods == {"POST", "GET"}
\* request.body: none, the empty object, an object with a field
Bodies == {"none", "{}", "{a}"}

\* ['POST', 'PUT', 'PATCH', 'DELETE'].includes(method)
Covered(method) == method \in {"POST", "PUT", "PATCH", "DELETE"}

\* JSON.stringify(body || {})
bodyString(body) == IF body = "none" THEN "{}" ELSE body

\* sha256 of the body string, hex
hashRequest(body) == <<"sha256", bodyString(body)>>

NoRecord == [present |-> FALSE, response |-> Null, requestHash |-> << >>]

IdleRequest == [pc |-> "idle", method |-> "", hash |-> << >>, bypass |-> FALSE,
                ran |-> FALSE, response |-> Null, cachedHeader |-> FALSE,
                outcome |-> "none"]

\* checkIdempotency: { isDuplicate, cachedResponse }
checkIdempotency(rec, requestHash, healthy, ok) ==
    IF ~healthy \/ ~ok \/ ~rec.present THEN [isDuplicate |-> FALSE, cachedResponse |-> Null]
    ELSE IF rec.requestHash # requestHash THEN [isDuplicate |-> FALSE, cachedResponse |-> Null]
    ELSE [isDuplicate |-> TRUE, cachedResponse |-> rec.response]

\* intercept, up to the answer of checkIdempotency
IdemIntercept(r, method, body, ok) ==
    /\ idem.rq[r].pc = "idle"
    /\ IF r = 1 THEN TRUE ELSE idem.rq[r - 1].pc # "idle"
    /\ LET rec == [idem.rq[r] EXCEPT !.method = method, !.hash = hashRequest(body)]
           checkResult == checkIdempotency(idem.record, hashRequest(body), isHealthy, ok)
       IN  IF ~Covered(method)
           THEN idem' = [idem EXCEPT !.rq[r] = [rec EXCEPT !.pc = "handle", !.bypass = TRUE]]
           ELSE IF checkResult.isDuplicate /\ checkResult.cachedResponse # Null
           THEN idem' = [idem EXCEPT !.rq[r] = [rec EXCEPT !.pc = "done",
                                                  !.response = checkResult.cachedResponse,
                                                  !.cachedHeader = TRUE,
                                                  !.outcome = "returned"]]
           ELSE idem' = [idem EXCEPT !.rq[r] = [rec EXCEPT !.pc = "handle"],
                                     !.clean = idem.clean /\ isHealthy /\ ok]
    /\ UNCHANGED <<isConnected, clock, rlVars, cacheVars, opVars, healthVars>>

\* next.handle(): the n-th run of the handler answers n, or nothing, or throws
IdemHandle(r, out) ==
    /\ idem.rq[r].pc = "handle"
    /\ LET rec == [idem.rq[r] EXCEPT !.ran = TRUE]
           data == IF out = "value" THEN idem.runs + 1 ELSE Null
       IN  idem' = [idem EXCEPT
              !.runs = idem.runs + 1,
              !.rq[r] = IF out = "throw" THEN [rec EXCEPT !.pc = "done", !.outcome = "threw"]
                        ELSE IF rec.bypass
                        THEN [rec EXCEPT !.pc = "done", !.response = data, !.outcome = "returned"]
                        ELSE [rec EXCEPT !.pc = "store", !.response = data, !.outcome = "returned"]]
    /\ UNCHANGED <<isConnected, clock, rlVars, cacheVars, opVars, healthVars>>

\* tap: storeIdempotency(fullKey, data, requestHash)
IdemStore(r, ok) ==
    /\ idem.rq[r].pc = "store"
    /\ idem' = [idem EXCEPT
          !.rq[r].pc = "done",
          !.record = IF isHealthy /\ ok
                     THEN [present |-> TRUE, response |-> idem.rq[r].response,
                           requestHash |-> idem.rq[r].hash]
                     ELSE idem.record,
          !.clean = idem.clean /\ isHealthy /\ ok]
    /\ UNCHANGED <<isConnected, clock, rlVars, cacheVars, opVars, healthVars>>

\* the record runs out of its ttl
IdemExpire ==
    /\ idem.record.present
    /\ idem' = [idem EXCEPT !.record = NoRecord, !.clean = FALSE]
    /\ UNCHANGED <<isConnected, clock, rlVars, cacheVars, opVars, healthVars>>

InitIdempotency ==
    idem = [record |-> NoRecord, rq |-> [r \in Requests |-> IdleRequest], runs |-> 0,
            clean |-> TRUE]

NextIdempotency ==
    \/ OnReady /\ UNCHANGED healthVars
    \/ OnClose /\ UNCHANGED healthVars
    \/ \E r \in Requests, method \in Methods, body \in Bodies, ok \in BOOLEAN :
          IdemIntercept(r, method, body, ok)
    \/ \E r \in Requests, out \in {"value", "void", "throw"} : IdemHandle(r, out)
    \/ \E r \in Requests, ok \in BOOLEAN : IdemStore(r, ok)
    \/ IdemExpire

-----------------------------------------------------------------------------

\* private isConnected = false
InitHealth ==
    /\ isConnected = FALSE
    /\ clock = 0

InitRateLimit ==
    /\ config \in {cf \in Configs : <<cf.rateNum, cf.rateDen>> \in Rates}
    /\ tokenBucket = AbsentBucket
    /\ leakyBucket = AbsentBucket
    /\ rl = [c \in Checkers |-> IdleCall]
    /\ scriptLog = << >>

InitCache ==
    /\ store = [k \in CacheKeys \cup LockKeys |-> NoEntry]
    /\ ca = [c \in Callers |-> IdleCaller]
    /\ loaderCalls = 0

NextRateLimit ==
    \/ OnReady /\ UNCHANGED healthVars
    \/ OnClose /\ UNCHANGED healthVars
    \/ Tick
    \/ \E c \in Checkers : CheckTokenBucketStart(c)
    \/ \E c \in Checkers : CheckLeakyBucketStart(c)
    \/ \E c \in Checkers : CheckTokenBucketEval(c)
    \/ \E c \in Checkers : CheckLeakyBucketEval(c)
    \/ \E c \in Checkers, ran \in BOOLEAN : CheckTokenBucketEvalFails(c, ran)
    \/ \E c \in Checkers, ran \in BOOLEAN : CheckLeakyBucketEvalFails(c, ran)

NextCache ==
    \/ OnReady /\ UNCHANGED healthVars
    \/ OnClose /\ UNCHANGED healthVars
    \/ \E c \in Callers, ns \in Namespaces, ok \in BOOLEAN : GetOrSetStart(c, ns, ok)
    \/ \E c \in Callers, ok \in BOOLEAN : AfterMiss(c, ok)
    \/ \E c \in Callers, ok \in BOOLEAN : DoubleCheck(c, ok)
    \/ \E c \in Callers, out \in {"value", "null", "throw"}, ok \in BOOLEAN :
          LoadFinishLocked(c, out, ok)
    \/ \E c \in Callers, out \in {"value", "null", "throw"}, ok \in BOOLEAN :
          LoadFinishUnlocked(c, out, ok)
    \/ \E c \in Callers, ok \in BOOLEAN : ReleaseLock(c, ok)
    \/ \E c \in Callers, ok \in BOOLEAN : PollGet(c, ok)
    \/ \E c \in Callers, ok \in BOOLEAN : PollExists(c, ok)
    \/ \E c \in Callers, ok \in BOOLEAN : PollRecheck(c, ok)
    \/ \E k \in LockKeys : LockExpire(k)

NextCacheOps ==
    \/ OnReady /\ UNCHANGED healthVars
    \/ OnClose /\ UNCHANGED healthVars
    \/ \E ok \in BOOLEAN : CacheGetOp("k", ok)
    \/ \E ns \in Namespaces, tags \in SetTagLists, ok \in BOOLEAN :
          CacheSetStart("k", ns, 1, tags, ok)
    \/ \E ok \in BOOLEAN : SetTagAdd(ok)
    \/ \E ok \in BOOLEAN : SetTagExpire(ok)
    \/ \E ns \in Namespaces, ok \in BOOLEAN : CacheDeleteStart("k", ns, ok)
    \/ \E ok \in BOOLEAN : DeleteScan(ok)
    \/ \E ok \in BOOLEAN : DeleteSrem(ok)
    \/ \E tags \in InvalidateTagLists : InvalidateStart(tags)
    \/ \E ok \in BOOLEAN : InvSmembers(ok)
    \/ \E ok \in BOOLEAN : InvDelMember(ok)
    \/ \E ok \in BOOLEAN : InvDelTag(ok)
    \/ \E ns \in Namespaces, ok \in BOOLEAN : CacheClearStart(ns, ok)
    \/ \E ok \in BOOLEAN : ClearDel(ok)
    \/ \E k \in CacheKeys : EntryExpire(k)
    \/ \E t \in Tags : TagSetExpire(t)

NextHealth ==
    \/ OnReady /\ Observe("ready") /\ probe' = probe
    \/ OnClose /\ Observe("close") /\ probe' = probe
    \/ OnEnd /\ Observe("end") /\ probe' = probe
    \/ OnError /\ Observe("error") /\ probe' = probe
    \/ \E outcome \in {"ready", "lazy", "failed"} :
          /\ ~Booted
          /\ OnModuleInit(outcome)
          /\ Observe(IF outcome = "ready" THEN "initReady"
                     ELSE IF outcome = "lazy" THEN "initLazy" ELSE "initFailed")
          /\ probe' = probe
    \/ PingStart
    \/ \E reply \in {"PONG", "other", "error"} : PingReply(reply)

InitOps ==
    /\ tagSets = [t \in Tags |-> EmptyTagSet]
    /\ co = IdleOp

InitMonitor ==
    /\ probe = "idle"
    /\ healthLog = << >>

Init == InitHealth /\ InitRateLimit /\ InitCache /\ InitOps /\ InitMonitor /\ InitIdempotency
Next == NextRateLimit \/ NextCache \/ NextCacheOps \/ NextHealth \/ NextIdempotency

(* getOrSet under normal conditions: the store is healthy ('ready' has been   *)
(* delivered and no 'close'), no store call fails, every loader resolves to  *)
(* a value, no lock outlives its ttl.                                        *)
InitReady ==
    /\ isConnected = TRUE
    /\ clock = 0
    /\ config = [strategy |-> "token_bucket", skipIfRedisDown |-> TRUE, capacity |-> 1,
                 rateNum |-> 1, rateDen |-> 1, windowMs |-> 2000]
    /\ tokenBucket = AbsentBucket
    /\ leakyBucket = AbsentBucket
    /\ rl = [c \in Checkers |-> IdleCall]
    /\ scriptLog = << >>
    /\ InitCache
    /\ InitOps
    /\ InitMonitor
    /\ InitIdempotency

NextSingleFlight ==
    \/ \E c \in Callers, ns \in Namespaces : GetOrSetStart(c, ns, TRUE)
    \/ \E c \in Callers : AfterMiss(c, TRUE)
    \/ \E c \in Callers : DoubleCheck(c, TRUE)
    \/ \E c \in Callers : LoadFinishLocked(c, "value", TRUE)
    \/ \E c \in Callers : LoadFinishUnlocked(c, "value", TRUE)
    \/ \E c \in Callers : ReleaseLock(c, TRUE)
    \/ \E c \in Callers : PollGet(c, TRUE)
    \/ \E c \in Callers : PollExists(c, TRUE)
    \/ \E c \in Callers : PollRecheck(c, TRUE)

\* the same, and a lock may run out of its ttl while its holder is loading
NextStampede ==
    \/ NextSingleFlight
    \/ \E k \in LockKeys : LockExpire(k)

SpecSingleFlight == InitReady /\ [][NextSingleFlight]_vars
SpecStampede == InitReady /\ [][NextStampede]_vars

(* getOrSet as under SpecStampede, with the scheduling the runtime gives it. *)
(* Every store call of a started getOrSet is answered and every loader run   *)
(* without the lock settles (weak fairness of CallStep); the loader of a     *)
(* lock holder may run for ever, and nothing forces a lock to expire.        *)
CallStep(c) ==
    \/ AfterMiss(c, TRUE)
    \/ DoubleCheck(c, TRUE)
    \/ LoadFinishUnlocked(c, "value", TRUE)
    \/ ReleaseLock(c, TRUE)
    \/ PollGet(c, TRUE)
    \/ PollExists(c, TRUE)
    \/ PollRecheck(c, TRUE)

SpecWait == InitReady /\ [][NextStampede]_vars /\ \A c \in Callers : WF_vars(CallStep(c))

\* the whole layer
Spec == Init /\ [][Next]_vars
\* the rate limiter and the health flag, no cache call in progress
SpecRateLimit == Init /\ [][NextRateLimit]_vars
\* the cache and the health flag, no rate-limit call in progress
InitCacheLayer ==
    /\ InitHealth
    /\ config = [strategy |-> "token_bucket", skipIfRedisDown |-> TRUE, capacity |-> 1,
                 rateNum |-> 1, rateDen |-> 1, windowMs |-> 2000]
    /\ tokenBucket = AbsentBucket
    /\ leakyBucket = AbsentBucket
    /\ rl = [c \in Checkers |-> IdleCall]
    /\ scriptLog = << >>
    /\ InitCache
    /\ InitOps
    /\ InitMonitor
    /\ InitIdempotency

SpecCache == InitCacheLayer /\ [][NextCache]_vars
\* requests with an Idempotency-Key, and the health flag
SpecIdempotency == InitReady /\ [][NextIdempotency]_vars

(* get, set, delete, invalidateByTags and clear, one call after another, on  *)
(* a healthy store: no store call fails and nothing expires.                 *)
NextCacheOpsHealthy ==
    \/ CacheGetOp("k", TRUE)
    \/ \E ns \in Namespaces, tags \in SetTagLists : CacheSetStart("k", ns, 1, tags, TRUE)
    \/ SetTagAdd(TRUE)
    \/ SetTagExpire(TRUE)
    \/ \E ns \in Namespaces : CacheDeleteStart("k", ns, TRUE)
    \/ DeleteScan(TRUE)
    \/ DeleteSrem(TRUE)
    \/ \E tags \in InvalidateTagLists : InvalidateStart(tags)
    \/ InvSmembers(TRUE)
    \/ InvDelMember(TRUE)
    \/ InvDelTag(TRUE)
    \/ \E ns \in Namespaces : CacheClearStart(ns, TRUE)
    \/ ClearDel(TRUE)

SpecCacheOpsHealthy == InitReady /\ [][NextCacheOpsHealthy]_vars
\* the same calls with the health flag changing, store calls failing, ttls running out
SpecCacheOps == InitCacheLayer /\ [][NextCacheOps]_vars
\* the health monitor alone
(* The rate limiter on a healthy store, after k checks made at time 0 on an   *)
(* absent bucket were allowed (1 <= k <= capacity): the token bucket holds   *)
(* capacity - k tokens, the leaky bucket is at level k.                      *)
InitDrained ==
    /\ isConnected = TRUE
    /\ clock = 0
    /\ config \in {cf \in Configs : <<cf.rateNum, cf.rateDen>> \in Rates}
    /\ \E k \in 1..config.capacity :
          /\ tokenBucket = IF config.strategy = "token_bucket"
                           THEN Persist(config.capacity - k, 0, config.windowMs)
                           ELSE AbsentBucket
          /\ leakyBucket = IF config.strategy = "leaky_bucket"
                           THEN Persist(k, 0, config.windowMs)
                           ELSE AbsentBucket
    /\ rl = [c \in Checkers |-> IdleCall]
    /\ scriptLog = << >>
    /\ InitCache
    /\ InitOps
    /\ InitMonitor
    /\ InitIdempotency

NextDrained ==
    \/ Tick
    \/ \E c \in Checkers : CheckTokenBucketStart(c)
    \/ \E c \in Checkers : CheckLeakyBucketStart(c)
    \/ \E c \in Checkers : CheckTokenBucketEval(c)
    \/ \E c \in Checkers : CheckLeakyBucketEval(c)

SpecDrained == InitDrained /\ [][NextDrained]_vars

(* One client checking one identifier again and again on a healthy store, a  *)
(* check starting when the one before has been answered, half a second or    *)
(* nothing between two checks: capacity 4, refillRate 1.5 per second (the    *)
(* guard's default capacity / windowSeconds is a fraction as a rule), window *)
(* 2 seconds.                                                                *)
InitPaced ==
    /\ isConnected = TRUE
    /\ clock = 0
    /\ config = [strategy |-> "token_bucket", skipIfRedisDown |-> TRUE, capacity |-> 4,
                 rateNum |-> 3, rateDen |-> 2, windowMs |-> 2000]
    /\ tokenBucket = AbsentBucket
    /\ leakyBucket = AbsentBucket
    /\ rl = [c \in Checkers |-> IdleCall]
    /\ scriptLog = << >>
    /\ InitCache
    /\ InitOps
    /\ InitMonitor
    /\ InitIdempotency

\* half a second passes between two requests
Pace ==
    /\ clock < MaxPace * 500
    /\ clock' = clock + 500
    /\ UNCHANGED <<isConnected, rlVars, cacheVars, opVars, healthVars, idem>>

\* canActivate has answered; the client's next request starts a new check
CheckAgain(c) ==
    /\ rl[c].pc = "done"
    /\ Len(scriptLog) < MaxChecks
    /\ rl' = [rl EXCEPT ![c] = IdleCall]
    /\ UNCHANGED <<isConnected, clock, config, tokenBucket, leakyBucket, scriptLog,
                   cacheVars, opVars, healthVars, idem>>

NextPaced ==
    \/ Pace
    \/ CheckTokenBucketStart(1)
    \/ CheckTokenBucketEval(1)
    \/ CheckAgain(1)

SpecPaced == InitPaced /\ [][NextPaced]_vars

(* getOrSet callers as under SpecSingleFlight, and one client calling clear   *)
(* with or without a namespace while they run; no store call fails.          *)
NextClearRace ==
    \/ NextSingleFlight
    \/ \E ns \in Namespaces : CacheClearStart(ns, TRUE)
    \/ ClearDel(TRUE)

SpecClearRace == InitReady /\ [][NextClearRace]_vars

(* get, set, delete, invalidateByTags and clear on a healthy store with no    *)
(* failing call, and the store dropping the entries and tag sets whose ttl   *)
(* has run out: options.ttl for an entry, defaultTtl for a tag set.          *)
NextCacheOpsExpiry ==
    \/ NextCacheOpsHealthy
    \/ \E k \in CacheKeys : EntryExpire(k)
    \/ \E t \in Tags : TagSetExpire(t)

SpecCacheOpsExpiry == InitReady /\ [][NextCacheOpsExpiry]_vars

(* Store calls of the rate limiter and of the cache, failing or not, next to  *)
(* the transport events and the probe.                                       *)
NextOperations ==
    \/ OnReady /\ UNCHANGED healthVars
    \/ OnClose /\ UNCHANGED healthVars
    \/ OnEnd /\ UNCHANGED healthVars
    \/ OnError /\ UNCHANGED healthVars
    \/ PingStart
    \/ \E reply \in {"PONG", "other", "error"} : PingReply(reply)
    \/ \E c \in Checkers : CheckTokenBucketStart(c)
    \/ \E c \in Checkers : CheckTokenBucketEval(c)
    \/ \E c \in Checkers, ran \in BOOLEAN : CheckTokenBucketEvalFails(c, ran)
    \/ \E ok \in BOOLEAN : CacheGetOp("k", ok)
    \/ \E ns \in Namespaces, ok \in BOOLEAN : CacheDeleteStart("k", ns, ok)
    \/ \E ok \in BOOLEAN : DeleteScan(ok)

SpecOperations == InitCacheLayer /\ [][NextOperations]_vars

SpecHealth == InitCacheLayer /\ [][NextHealth]_vars

-----------------------------------------------------------------------------
(* Properties of the rate limiter, checked under SpecRateLimit *)

Done(c) == rl[c].pc = "done"
TokenLog == {i \in DOMAIN scriptLog : scriptLog[i].algo = "token_bucket"}
AllowedInLog == {i \in TokenLog : scriptLog[i].allowed}

C4_RemainingInRange ==
    \A c \in Checkers :
        Done(c) => (0 <= rl[c].result.remaining /\ rl[c].result.remaining <= config.capacity)

\* C5: a call that finds isHealthy() false returns the policy constant:
\* fail-open allowed, remaining = capacity, no retryAfter; fail-closed denied,
\* remaining = 0, retryAfter = windowSeconds.
C5_UnhealthyPolicyResult ==
    \A c \in Checkers :
        (Done(c) /\ ~rl[c].healthyAtStart) =>
            /\ rl[c].result.allowed = config.skipIfRedisDown
            /\ rl[c].result.remaining = (IF config.skipIfRedisDown THEN config.capacity ELSE 0)
            /\ rl[c].result.retryAfter =
                   (IF config.skipIfRedisDown THEN << >> ELSE <<config.windowMs>>)

C5_Witness ==
    \E c, d \in Checkers :
        /\ Done(c) /\ ~rl[c].healthyAtStart /\ rl[c].algo = "token_bucket"
        /\ Done(d) /\ rl[d].healthyAtStart

\* C6: a call that finds isHealthy() false answers without a store access:
\* it never invokes the script and is over at once.
C6_NoStoreAccessWhenUnhealthy ==
    \A c \in Checkers :
        (rl[c].pc # "idle" /\ ~rl[c].healthyAtStart) => (rl[c].evals = 0 /\ Done(c))

C6_Witness ==
    \E c \in Checkers :
        /\ Done(c) /\ ~rl[c].healthyAtStart /\ rl[c].evals = 0
        /\ scriptLog # << >>

C8_EveryDenialEmitsOneHit ==
    \A c \in Checkers :
        Done(c) => rl[c].hits = (IF rl[c].result.allowed THEN 0 ELSE 1)

\* C9 as claimed: retryAfter is present only when allowed = false, and every
\* denied result carries a retryAfter of at least one second.
C9_RetryAfterAtLeastOneSecond ==
    \A c \in Checkers :
        Done(c) =>
            /\ rl[c].result.retryAfter # << >> => ~rl[c].result.allowed
            /\ ~rl[c].result.allowed =>
                   (rl[c].result.retryAfter # << >> /\ rl[c].result.retryAfter[1] >= 1000)

\* C9 amended: retryAfter is present exactly when allowed = false; a bucket
\* denial carries at least one second, a fail-closed fallback carries
\* windowSeconds (positive, below one second when windowSeconds is).
C9_RetryAfterAmended ==
    \A c \in Checkers :
        Done(c) =>
            /\ rl[c].result.retryAfter # << >> => ~rl[c].result.allowed
            /\ ~rl[c].result.allowed =>
                   /\ rl[c].result.retryAfter # << >>
                   /\ rl[c].result.retryAfter[1] > 0
                   /\ rl[c].cause = "script" => rl[c].result.retryAfter[1] >= 1000
                   /\ rl[c].cause # "script" => rl[c].result.retryAfter[1] = config.windowMs

C9_Witness ==
    \E c \in Checkers :
        /\ Done(c) /\ rl[c].cause = "script" /\ ~rl[c].result.allowed
        /\ rl[c].algo = "leaky_bucket"

-----------------------------------------------------------------------------
(* Properties of getOrSet *)

Finished(c) == ca[c].pc = "done"
HoldsOwnLock(c) == store[MyLock(c)].present /\ store[MyLock(c)].owner = c

\* C1: callers of getOrSet on the same missing key, the store healthy, no lock
\* expiring and every loader succeeding (SpecSingleFlight), invoke the loader
\* once in total and all return the loaded value.  Stated for the runs in
\* which, moreover, no waiting caller used up its polls.
C1_LoaderInvokedOnce ==
    (\A c \in Callers : ca[c].i < maxRetries) =>
        /\ loaderCalls <= 1
        /\ \A c \in Callers : Finished(c) =>
              (ca[c].outcome = "returned" /\ ca[c].result = 1 /\ loaderCalls = 1)

\* C2: when the lock disappears before a value is cached (SpecStampede: the
\* lock expires while its holder is loading, or a waiter uses up its polls),
\* the loader invocations of N concurrent callers stay below a bound that does
\* not grow with N: not every one of the N callers runs the loader.  Stated
\* for calls without a namespace.
C2_LoaderCallsBounded ==
    (\A c \in Callers : ca[c].ns = "") => loaderCalls < NumCallers

InCritical(c) == ca[c].pc \in {"locked", "loading", "release", "releaseHit", "releaseErr"}

\* C11: two getOrSet calls are never at the same time between their successful
\* acquireLock and their own releaseLock for the same cache key.
C11_AtMostOneHolder ==
    \A c, d \in Callers :
        (c # d /\ InCritical(c) /\ InCritical(d)) => MyLock(c) # MyLock(d)

\* C12: the releaseLock of a call never removes from the store a lock that
\* another call created and still holds (that call is between its acquireLock
\* and its own releaseLock).
C12_OnlyOwnLockDeleted ==
    [][\A c \in Callers :
          (ca[c].pc \in {"release", "releaseHit", "releaseErr"} /\ ca'[c].pc = "done") =>
              \A d \in Callers \ {c} :
                  ~(InCritical(d) /\ HoldsOwnLock(d) /\ ~store'[MyLock(d)].present)]_vars

Waiting(c) == ca[c].pc \in {"wait", "pollExists", "pollRecheck"}

\* C13: every started getOrSet call ends provided its own loader settles: a
\* call that did not acquire the lock starts at most
\* maxRetries <= maxWaitTime / checkInterval rounds of polling and then calls
\* the loader itself, while the lock holder's loader may run for ever; the only
\* call that may never end is a lock holder inside its own loader.
C13_EveryCallTerminates ==
    /\ [](\A c \in Callers : /\ ca[c].i <= maxRetries
                               /\ maxRetries <= maxWaitTime \div checkInterval
                               /\ Waiting(c) => ca[c].i < maxRetries)
    /\ \A c \in Callers :
          (ca[c].pc # "idle") ~> (Finished(c) \/ ca[c].pc = "loading")

C13_Witness ==
    \E c, d \in Callers :
        /\ ca[d].pc = "loading" /\ HoldsOwnLock(d)
        /\ Finished(c) /\ ca[c].path = "wait" /\ ca[c].i = maxRetries
        /\ ca[c].loads = 1 /\ ca[c].outcome = "returned"

\* C14: a getOrSet call that finds the store unhealthy after its miss calls the
\* loader once, calls neither acquireLock nor exists nor releaseLock, and ends
\* with the loader's outcome: it returns the loader's value whether or not the
\* write back succeeded, and throws only when the loader did.
C14_UnhealthyMissLoadsDirectly ==
    \A c \in Callers :
        ca[c].path = "down" =>
            /\ ca[c].pc \in {"loadingDown", "done"}
            /\ ca[c].loads = 1
            /\ ~ca[c].lockTouched /\ ~ca[c].acquired /\ ca[c].release = "none"
            /\ ca[c].i = 0
            /\ Finished(c) =>
                  \/ ca[c].outcome = "returned" /\ ca[c].result = ca[c].value
                  \/ ca[c].outcome = "thrown" /\ ca[c].value = Null

C14_Witness ==
    \E c \in Callers :
        /\ Finished(c) /\ ca[c].path = "down" /\ ca[c].outcome = "returned"
        /\ ca[c].result # Null /\ ca[c].loads = 1
        /\ ~store[CacheKeyOf(c)].present
        /\ \A k \in LockKeys : ~store[k].present

C16_NamespacedValueIsRead ==
    [][\A c \in Callers :
          (/\ ca[c].pc = "idle" /\ ca'[c].pc # "idle"
           /\ store[buildKey("k", ca'[c].ns)].present
           /\ store[buildKey("k", ca'[c].ns)].val # Null) =>
              /\ ca'[c].pc = "done" /\ ca'[c].outcome = "returned"
              /\ ca'[c].result = store[buildKey("k", ca'[c].ns)].val
              /\ ca'[c].loads = 0]_vars

-----------------------------------------------------------------------------
(* Properties of get, set, delete, invalidateByTags and clear *)

OpDone(name) == co.name = name /\ co.pc = "done"

\* C17: on a healthy store with no failing call, when invalidateByTags(tags)
\* ends, every entry that was live at its start and was written by a set()
\* carrying one of the tags is out of the store, so that get(key) of an entry
\* stored without a namespace is a miss; and invalidateByTags([t]) returns 1
\* when that one entry is all that is listed under t.
C17_TagInvalidationRoundTrip ==
    [][(co.name = "invalidateByTags" /\ co.pc # "done" /\ co'.pc = "done") =>
          /\ \A k \in co'.before : ~store'[k].present
          /\ buildKey("k", "") \in co'.before =>
                 CacheGet(store', "k", isConnected', TRUE) = Null
          /\ (/\ Len(co'.given) = 1
              /\ Cardinality(co'.before) = 1
              /\ tagSets[co'.given[1]].members = co'.before) => co'.count = 1]_vars

C17_Witness ==
    /\ OpDone("invalidateByTags") /\ ~co.down /\ ~co.failed
    /\ co.before = {buildKey("k", "")} /\ co.given = <<"t">>
    /\ co.count = 1 /\ co.removed = co.before
    /\ ~store[buildKey("k", "")].present

\* C18: the count invalidateByTags returns is the number of entries its
\* deletes took out of the store.
C18_CountIsRemovals ==
    OpDone("invalidateByTags") => co.count = Cardinality(co.removed)

\* C19: get, set, delete, invalidateByTags and clear never throw; a call that
\* found the store unhealthy, or one of whose store calls failed at runtime,
\* returns the safe default (miss, false, 0); no step of a call writes the
\* health flag.
C19_SafeDefaults ==
    /\ [](co.pc = "done" =>
            /\ co.outcome = "returned"
            /\ (co.down \/ co.failed) =>
                  /\ co.name = "get" => co.value = Null
                  /\ co.name \in {"set", "delete", "clear"} => ~co.success
                  /\ co.name = "invalidateByTags" => co.count = 0)
    /\ [][co' # co => isConnected' = isConnected]_vars

-----------------------------------------------------------------------------
(* Properties of the health monitor, checked under SpecHealth *)

\* C20: isHealthy() reads true right after a ready event, false right after a
\* close event and true right after a probe answered PONG, and from a close
\* event on it reads false after every step until a ready event, a successful
\* probe or a start-up that finds the client ready; in particular through
\* ready, close, probe sent, PONG it reads true, false, false, true.
C20_ReadyCloseProbe ==
    /\ \A i \in DOMAIN healthLog :
          /\ healthLog[i].ev \in {"ready", "pong"} => healthLog[i].healthy
          /\ healthLog[i].ev = "close" => ~healthLog[i].healthy
    /\ \A i, j \in DOMAIN healthLog :
          (/\ i < j /\ healthLog[i].ev = "close"
           /\ \A m \in (i + 1)..j : healthLog[m].ev \notin {"ready", "pong", "initReady"}) =>
              ~healthLog[j].healthy
    /\ Len(healthLog) > 0 => isHealthy = healthLog[Len(healthLog)].healthy

C20_Witness ==
    /\ healthLog = << [ev |-> "ready", healthy |-> TRUE], [ev |-> "close", healthy |-> FALSE],
                      [ev |-> "pingStart", healthy |-> FALSE], [ev |-> "pong", healthy |-> TRUE] >>
    /\ isHealthy

HasRoom == Len(healthLog) < MaxEvents

\* C21: ping() is sent whatever the flag says, and its outcome overrides the
\* flag: isHealthy() is true right after a probe answered PONG and false right
\* after a probe that got another reply or was rejected; both outcomes are
\* answers of ping(), it has no other exit.
C21_ProbeOverrides ==
    /\ \A i \in DOMAIN healthLog :
          /\ healthLog[i].ev = "pong" => healthLog[i].healthy
          /\ healthLog[i].ev = "pingFailed" => ~healthLog[i].healthy
    /\ (HasRoom /\ probe = "idle") => ENABLED PingStart
    /\ (HasRoom /\ probe = "sent") =>
          /\ ENABLED (PingReply("PONG") /\ isConnected')
          /\ ENABLED (PingReply("other") /\ ~isConnected')
          /\ ENABLED (PingReply("error") /\ ~isConnected')

C21_Witness ==
    /\ Len(healthLog) = 4
    /\ healthLog[1] = [ev |-> "pingStart", healthy |-> FALSE]
    /\ healthLog[2] = [ev |-> "pong", healthy |-> TRUE]
    /\ healthLog[3] = [ev |-> "pingStart", healthy |-> TRUE]
    /\ healthLog[4] = [ev |-> "pingFailed", healthy |-> FALSE]

\* C22: no state of the health monitor is a terminal unhealthy one: in every
\* reachable state a ready event sets the flag, a probe can be sent, and a
\* probe in flight that is answered PONG sets the flag.
C22_AlwaysRecoverable ==
    /\ HasRoom => ENABLED (OnReady /\ Observe("ready") /\ probe' = probe /\ isConnected')
    /\ (HasRoom /\ probe = "idle") => ENABLED PingStart
    /\ (HasRoom /\ probe = "sent") => ENABLED (PingReply("PONG") /\ isConnected')
    /\ \A i \in DOMAIN healthLog :
          healthLog[i].ev \in {"ready", "pong", "initReady"} => healthLog[i].healthy

C22_Witness ==
    /\ Len(healthLog) = 4
    /\ healthLog[1].ev = "initFailed" /\ ~healthLog[1].healthy
    /\ healthLog[2].ev = "end" /\ ~healthLog[2].healthy
    /\ healthLog[3].ev = "close" /\ ~healthLog[3].healthy
    /\ healthLog[4].ev = "ready" /\ healthLog[4].healthy
    /\ isHealthy

SameRequests(r, q) ==
    /\ idem.rq[r].pc # "idle" /\ idem.rq[q].pc # "idle"
    /\ Covered(idem.rq[r].method)
    /\ idem.rq[r].method = idem.rq[q].method
    /\ idem.rq[r].hash = idem.rq[q].hash

\* C23: requests with the same method, URL, caller, Idempotency-Key and body,
\* made while the store is healthy and the record has not expired, run the
\* handler at most once, and every request that did not run it receives the
\* stored response.
C23_HandlerRunsAtMostOnce ==
    idem.clean =>
        \A r, q \in Requests :
            (r # q /\ SameRequests(r, q)) =>
                /\ ~(idem.rq[r].ran /\ idem.rq[q].ran)
                /\ (idem.rq[q].pc = "done" /\ ~idem.rq[q].ran) =>
                      /\ idem.record.present
                      /\ idem.rq[q].response = idem.record.response

\* the k-th script run on an absent bucket, no time having passed
BurstOf(algo) == clock = 0 /\ config.strategy = algo

DeniedByScript(c) == rl[c].pc = "done" /\ rl[c].cause = "script" /\ ~rl[c].result.allowed

\* C24: on a token bucket that is absent at first, with no time passing, the
\* k-th check (1 <= k <= capacity) is allowed with remaining = capacity - k,
\* and check capacity + 1 is denied with remaining = 0 and
\* retryAfter = ceil(1 / refillRate) seconds.
C24_TokenBurst ==
    BurstOf("token_bucket") =>
        /\ \A k \in DOMAIN scriptLog :
              /\ k <= config.capacity =>
                    scriptLog[k].allowed /\ scriptLog[k].remaining = config.capacity - k
              /\ k = config.capacity + 1 =>
                    ~scriptLog[k].allowed /\ scriptLog[k].remaining = 0
        /\ \A c \in Checkers : DeniedByScript(c) =>
              /\ rl[c].result.remaining = 0
              /\ rl[c].result.retryAfter =
                    <<CeilDiv(config.rateDen, config.rateNum) * 1000>>

C24_Witness ==
    /\ BurstOf("token_bucket")
    /\ config.capacity = 1 /\ config.rateNum = 1 /\ config.rateDen = 2
    /\ Len(scriptLog) = 2
    /\ scriptLog[1].allowed /\ scriptLog[1].remaining = 0
    /\ ~scriptLog[2].allowed
    /\ \E c \in Checkers : DeniedByScript(c) /\ rl[c].result.retryAfter = <<2000>>

\* C25: on a leaky bucket that is absent at first, with no time passing, the
\* k-th check (1 <= k <= capacity) is allowed with remaining = capacity - k,
\* and check capacity + 1 is denied with remaining = 0 and
\* retryAfter = ceil(1 / leakRate) seconds.
C25_LeakyBurst ==
    BurstOf("leaky_bucket") =>
        /\ \A k \in DOMAIN scriptLog :
              /\ k <= config.capacity =>
                    scriptLog[k].allowed /\ scriptLog[k].remaining = config.capacity - k
              /\ k = config.capacity + 1 =>
                    ~scriptLog[k].allowed /\ scriptLog[k].remaining = 0
        /\ \A c \in Checkers : DeniedByScript(c) =>
              /\ rl[c].result.remaining = 0
              /\ rl[c].result.retryAfter =
                    <<CeilDiv(config.rateDen, config.rateNum) * 1000>>

C25_Witness ==
    /\ BurstOf("leaky_bucket")
    /\ config.capacity = 1 /\ config.rateNum = 1 /\ config.rateDen = 2
    /\ Len(scriptLog) = 2
    /\ scriptLog[1].allowed /\ scriptLog[1].remaining = 0
    /\ ~scriptLog[2].allowed
    /\ \E c \in Checkers : DeniedByScript(c) /\ rl[c].result.retryAfter = <<2000>>

\* C26: the fields kept in the store stay in their bounds: tokens of a token
\* bucket and level of a leaky bucket are within 0..capacity after any
\* interleaving of checks made with the same capacity.
C26_StoredFieldsInBounds ==
    /\ tokenBucket.present =>
          (tokenBucket.value >= 0 /\ tokenBucket.value <= config.capacity)
    /\ leakyBucket.present =>
          (leakyBucket.value >= 0 /\ leakyBucket.value <= config.capacity)

\* a leaky bucket filled to its capacity by two checks stamped at different times
C26_Witness ==
    /\ config.strategy = "leaky_bucket" /\ config.capacity = 2
    /\ leakyBucket.present /\ leakyBucket.value = 2
    /\ Len(scriptLog) = 2
    /\ scriptLog[1].now < scriptLog[2].now
    /\ scriptLog[1].allowed /\ scriptLog[2].allowed

\* this step is a run of a bucket script that answered with a denial
ScriptDenies ==
    /\ Len(scriptLog') = Len(scriptLog) + 1
    /\ ~scriptLog'[Len(scriptLog')].allowed

\* C27: a check that the script denies writes nothing: the stored fields of
\* the bucket (tokens and lastRefill, level and lastLeak) and the expiry of
\* its key are after the run what they were before it.
C27_DenialWritesNothing ==
    [][ScriptDenies => (tokenBucket' = tokenBucket /\ leakyBucket' = leakyBucket)]_vars

\* a denial stamped later than the write it found: the bucket keeps the old stamp
C27_Witness ==
    /\ config.strategy = "token_bucket"
    /\ Len(scriptLog) = 2
    /\ scriptLog[1].allowed /\ scriptLog[1].now = 0
    /\ ~scriptLog[2].allowed /\ scriptLog[2].now = 500
    /\ tokenBucket.present /\ tokenBucket.value = 0 /\ tokenBucket.last = 0
    /\ tokenBucket.expireAt = CeilDiv(config.windowMs, 1000) * 1000

\* C28: once delete(key, namespace) has returned true, the composed cache key
\* is not in the store and is a member of no tag set.
C28_DeletedKeyIsGone ==
    (OpDone("delete") /\ co.success) =>
        /\ ~store[co.key].present
        /\ \A t \in Tags : co.key \notin tagSets[t].members

\* this step is the delivery of the transport event ev
Delivers(ev) ==
    /\ Len(healthLog') = Len(healthLog) + 1
    /\ healthLog'[Len(healthLog')].ev = ev

\* C29: a transport error event never changes the health state: isHealthy()
\* answers after it what it answered before it, true or false.
C29_ErrorKeepsHealth ==
    [][Delivers("error") => (isConnected' = isConnected /\ probe' = probe)]_vars

C29_Witness ==
    /\ Len(healthLog) = 4
    /\ healthLog[1] = [ev |-> "ready", healthy |-> TRUE]
    /\ healthLog[2] = [ev |-> "error", healthy |-> TRUE]
    /\ healthLog[3] = [ev |-> "close", healthy |-> FALSE]
    /\ healthLog[4] = [ev |-> "error", healthy |-> FALSE]
    /\ ~isHealthy

\* this step belongs to a call of the rate limiter, the cache or a wrapper
OperationStep ==
    \/ rl' # rl \/ scriptLog' # scriptLog
    \/ tokenBucket' # tokenBucket \/ leakyBucket' # leakyBucket
    \/ co' # co \/ store' # store \/ tagSets' # tagSets
    \/ ca' # ca \/ idem' # idem

\* C30: no step of a rate-limit check or of a cache call, and in particular
\* none in which the store call is rejected at runtime, changes the health
\* flag; the steps that change it are transport events and probe replies.
C30_OperationsLeaveHealth ==
    [][OperationStep => isConnected' = isConnected]_vars

\* both a rate-limit check and a cache delete were rejected by the store while
\* the flag was up, no probe was sent, and the flag is still up
C30_Witness ==
    /\ isHealthy
    /\ healthLog = << >>
    /\ \A c \in Checkers :
          rl[c].pc = "done" /\ rl[c].cause = "error" /\ rl[c].healthyAtStart
    /\ OpDone("delete") /\ co.failed /\ ~co.down

\* this step is a run of the token bucket script for call c, stamped earlier
\* than the lastRefill it finds in the store
StaleTokenRun(c) ==
    /\ rl[c].pc = "eval" /\ rl[c].algo = "token_bucket"
    /\ Len(scriptLog') = Len(scriptLog) + 1
    /\ Live(tokenBucket)
    /\ rl[c].now < tokenBucket.last

\* C31: a token bucket check stamped earlier than the stored lastRefill is
\* treated as a check with no refill: it is allowed exactly when a token is
\* stored, it takes off the stored count nothing but the one token it
\* consumes, and it does not move lastRefill backwards.
C31_NegativeElapsedIsZeroRefill ==
    [][\A c \in Checkers :
          StaleTokenRun(c) =>
              /\ scriptLog'[Len(scriptLog')].allowed = (tokenBucket.value >= 1)
              /\ tokenBucket'.value >= tokenBucket.value - 1
              /\ tokenBucket'.last >= tokenBucket.last]_vars

\* call c is a checkTokenBucket that the script answered with allowed = true
AllowedByTokenScript(c) ==
    /\ rl[c].pc = "done" /\ rl[c].algo = "token_bucket"
    /\ rl[c].cause = "script" /\ rl[c].result.allowed

\* C32: among the checkTokenBucket calls of one identifier, those made within
\* an interval of T seconds that the script allows number at most
\* capacity + floor(refillRate * T), the expiry and re-creation of the bucket
\* key included.
C32_AllowedWithinRate ==
    \A a, b \in {rl[c].now : c \in Checkers} :
        a <= b =>
            Cardinality({c \in Checkers :
                            AllowedByTokenScript(c) /\ a <= rl[c].now /\ rl[c].now <= b})
                <= config.capacity + FloorDiv((b - a) * config.rateNum, 1000 * config.rateDen)

\* call b is the next check after the denial of call a, and is stamped at
\* least the retryAfter of a later than a
RetriedAfter(a, b) ==
    /\ DeniedByScript(a) /\ rl[a].result.retryAfter # << >>
    /\ rl[b].pc = "done" /\ rl[b].cause = "script"
    /\ rl[b].now >= rl[a].now + rl[a].result.retryAfter[1]
    /\ Len(scriptLog) = 2
    /\ scriptLog[1].now = rl[a].now /\ scriptLog[2].now = rl[b].now

\* C33: after a token bucket or leaky bucket check was denied by the script
\* with retryAfter = r, the next check on the bucket, made r seconds later or
\* more with the same parameters, is allowed.
C33_RetryAfterSuffices ==
    \A a, b \in Checkers : RetriedAfter(a, b) => rl[b].result.allowed

\* the retry finds the key it was denied on still live and just refilled
C33_Witness ==
    \E a, b \in Checkers :
        /\ RetriedAfter(a, b)
        /\ config.strategy = "token_bucket" /\ config.windowMs = 2000
        /\ config.rateNum = 1 /\ config.rateDen = 1
        /\ rl[a].now = 0 /\ rl[a].result.retryAfter = <<1000>>
        /\ rl[b].now = 1000 /\ rl[b].result.allowed /\ rl[b].result.remaining = 0
        /\ tokenBucket.last = 1000

\* the checks i..j of the log are allowed, and from i + 1 on none of them
\* found the bucket full after its refill
AllowedRun(i, j) ==
    /\ i < j
    /\ \A m \in i..j : scriptLog[m].allowed
    /\ \A m \in (i + 1)..j : scriptLog[m].remaining + 1 < config.capacity

\* tokens credited by the checks i + 1 .. j: each found remaining + 1 tokens
\* where the check before had left its remaining
Credited(i, j) == scriptLog[j].remaining - scriptLog[i].remaining + (j - i)

\* C34: over allowed token bucket checks made one after another at times
\* t_i <= ... <= t_j, the bucket never full and the key never expired, the
\* tokens credited are at least floor((t_j - t_i) / 1000 * refillRate) - 1.
C34_RefillCreditKept ==
    \A i, j \in DOMAIN scriptLog :
        AllowedRun(i, j) =>
            Credited(i, j) >=
                FloorDiv((scriptLog[j].now - scriptLog[i].now) * config.rateNum,
                         1000 * config.rateDen) - 1

\* entry i is the latest close or end event up to entry j
LastDownEvent(i, j) ==
    /\ i < j
    /\ healthLog[i].ev \in {"close", "end"}
    /\ \A m \in (i + 1)..j : healthLog[m].ev \notin {"close", "end"}

\* between i and j the client became ready, or a probe that was sent after i
\* was answered PONG
FreshSignal(i, j) ==
    \E m \in (i + 1)..j :
        \/ healthLog[m].ev \in {"ready", "initReady"}
        \/ /\ healthLog[m].ev = "pong"
           /\ \E p \in (i + 1)..(m - 1) : healthLog[p].ev = "pingStart"

C36_PollDiscipline ==
    [][\A c \in Callers :
          /\ (ca[c].pc = "pollExists" /\ ca'[c].pc = "pollRecheck") =>
                ~store[MyLock(c)].present
          /\ (ca[c].pc # "loadingDirect" /\ ca'[c].pc = "loadingDirect") =>
                \/ ca[c].pc = "pollRecheck" /\ ca'[c].cached = Null
                \/ ca[c].pc = "pollExists" /\ ca'[c].i = maxRetries]_vars

\* call d held the lock, loaded the value, wrote it and has returned
LoadedUnderLock(d) ==
    /\ Finished(d) /\ ca[d].path = "lock" /\ ca[d].loads = 1
    /\ ca[d].outcome = "returned" /\ ca[d].release = "deleted"

\* C37: the lock holder has written the loaded value to the cache when it
\* releases the lock, so on a healthy store a waiter that saw the lock absent
\* after a successful load finds the value on its extra read and returns it
\* without invoking the loader.
C37_WaiterFindsLoadedValue ==
    /\ [](\A d \in Callers :
            ca[d].pc = "release" =>
                /\ store[CacheKeyOf(d)].present
                /\ store[CacheKeyOf(d)].val = ca[d].value)
    /\ [][\A c \in Callers :
            (/\ ca[c].pc = "pollRecheck" /\ ca'[c].pc # "pollRecheck"
             /\ \E d \in Callers : LoadedUnderLock(d)) =>
                /\ ca'[c].pc = "done" /\ ca'[c].outcome = "returned"
                /\ \E d \in Callers : LoadedUnderLock(d) /\ ca'[c].result = ca[d].value
                /\ ca'[c].loads = 0]_vars

\* this step is the del of a clear that then returns true
ClearStep == co.name = "clear" /\ co.pc = "clearDel" /\ co'.pc = "done" /\ co'.success

\* the cache entry k is stored under the namespace of the clear in progress
\* (every entry, for a clear without a namespace)
InClearScope(k) ==
    /\ k \in CacheKeys
    /\ Len(co.key) = 1 \/ (Len(k) = 3 /\ k[2] = co.key[2])

\* the lock of call d belongs to a key of the namespace being cleared
LockInClearScope(d) == Len(co.key) = 2 /\ ca[d].ns = co.key[2]

\* C38: clear(namespace) removes the cache entries stored under that namespace
\* and leaves alone the entries of other namespaces and those without one, the
\* tag sets, and the locks held for keys outside the namespace; clear() without
\* a namespace removes cache entries and deletes no lock that is held.
C38_ClearIsScoped ==
    [][ClearStep =>
          /\ \A k \in CacheKeys :
                /\ ~InClearScope(k) => store'[k] = store[k]
                /\ (InClearScope(k) /\ k \in Range(co.members)) => ~store'[k].present
          /\ Len(co.key) = 2 => tagSets' = tagSets
          /\ \A d \in Callers :
                (InCritical(d) /\ HoldsOwnLock(d) /\ ~LockInClearScope(d)) =>
                    store'[MyLock(d)] = store[MyLock(d)]]_vars

\* C39: on a healthy store, between two calls, every live entry is listed in
\* the tag set of each tag it was set with, whatever its ttl, and when
\* invalidateByTags(tags) ends every entry that was live at its start and was
\* set with one of the tags is out of the store.
C39_TagSetOutlivesEntries ==
    /\ [](OpReady =>
            \A k \in CacheKeys : \A t \in Tags :
                (store[k].present /\ t \in store[k].tags) => k \in tagSets[t].members)
    /\ [][(co.name = "invalidateByTags" /\ co.pc # "done" /\ co'.pc = "done") =>
            \A k \in co'.before : ~store'[k].present]_vars

\* C40: between two calls, for every live entry the tag sets that list its key
\* are exactly the tags of the set() that wrote its current value: a set() with
\* other tags, or with none, takes the key out of the tag sets it no longer
\* carries, so that invalidating an old tag leaves the entry in the store.
C40_TagSetsInLockstep ==
    /\ [](OpReady =>
            \A k \in CacheKeys :
                store[k].present =>
                    {t \in Tags : k \in tagSets[t].members} = store[k].tags)
    /\ [][(co.name = "invalidateByTags" /\ co.pc # "done" /\ co'.pc = "done") =>
            co'.removed \subseteq co'.before]_vars

=============================================================================
